---- MODULE Spec2Model ----
(***************************************************************************)
(* Model of numtraits (src/src/lib.rs): the trait UpCastAs<T>, the rules   *)
(* declared with cast_rule!, the resolution of `U: UpCastAs<V>` through     *)
(* them, and the evaluation of the `from` bodies the resolved impls carry.  *)
(*                                                                         *)
(* Values are bit patterns.  An integer kind of width w holds a sequence   *)
(* of w bits, most significant first (two's complement for the signed      *)
(* kinds).  A float kind holds an IEEE-754 record [sign, exp, frac] with    *)
(* the biased exponent as a number and the fraction as a bit sequence.      *)
(***************************************************************************)
EXTENDS Integers, Sequences, FiniteSets, TLC

\* Number of sample bit patterns drawn per kind (see Sample).
NumSamples == 12

UKinds == {"u8", "u16", "u32", "u64"}
IKinds == {"i8", "i16", "i32", "i64"}
FKinds == {"f32", "f64"}
IntKinds == UKinds \cup IKinds
Kinds == IntKinds \cup FKinds

Width(k) ==
  CASE k \in {"u8", "i8"} -> 8
    [] k \in {"u16", "i16"} -> 16
    [] k \in {"u32", "i32", "f32"} -> 32
    [] k \in {"u64", "i64", "f64"} -> 64

\* IEEE-754 layout of the two float kinds.
SigBits(k) == IF k = "f32" THEN 24 ELSE 53
FracLen(k) == SigBits(k) - 1
Bias(k) == IF k = "f32" THEN 127 ELSE 1023
ExpMax(k) == IF k = "f32" THEN 255 ELSE 2047

---------------------------------------------------------------------------
(* Bit-sequence arithmetic (most significant bit first).                   *)

Zeros(n) == [i \in 1..n |-> 0]
Ones(n) == [i \in 1..n |-> 1]
Invert(b) == [i \in 1..Len(b) |-> 1 - b[i]]
Front(b) == SubSeq(b, 1, Len(b) - 1)
Low(b, n) == SubSeq(b, Len(b) - n + 1, Len(b))

\* b + 1 modulo 2^Len(b)
RECURSIVE Inc(_)
Inc(b) ==
  IF Len(b) = 0 THEN <<>>
  ELSE IF b[Len(b)] = 0 THEN Front(b) \o <<1>>
  ELSE Inc(Front(b)) \o <<0>>

RECURSIVE StripLeading(_)
StripLeading(b) ==
  IF Len(b) = 0 THEN <<>>
  ELSE IF b[1] = 1 THEN b
  ELSE StripLeading(Tail(b))

RECURSIVE TrailingZeros(_)
TrailingZeros(b) ==
  IF Len(b) = 0 THEN 0
  ELSE IF b[Len(b)] = 1 THEN 0
  ELSE 1 + TrailingZeros(Front(b))

\* The low n bits of the binary numeral of i.
RECURSIVE NatBits(_, _)
NatBits(i, n) ==
  IF n = 0 THEN <<>> ELSE NatBits(i \div 2, n - 1) \o <<i % 2>>

---------------------------------------------------------------------------
(* Integer kinds: sign and magnitude of a bit pattern.                     *)

IsNeg(k, x) == k \in IKinds /\ x[1] = 1

\* |x| as a bit sequence without leading zeros.
Magnitude(k, x) ==
  StripLeading(IF IsNeg(k, x) THEN Inc(Invert(x)) ELSE x)

---------------------------------------------------------------------------
(* `x as k` of Rust for the casts the rules perform.                       *)

\* IntAsInt with every widening done by zero extension.
IntAsIntZeroExt(from, to, x) ==
  IF Width(to) >= Width(from)
  THEN Zeros(Width(to) - Width(from)) \o x
  ELSE Low(x, Width(to))

\* integer to integer: extension by the source's signedness, or truncation
IntAsInt(from, to, x) ==
  IF Width(to) >= Width(from)
  THEN (IF from \in IKinds THEN [i \in 1..(Width(to) - Width(from)) |-> x[1]]
                          ELSE Zeros(Width(to) - Width(from))) \o x
  ELSE Low(x, Width(to))

\* RoundSig rounding toward zero.
RoundSigTrunc(m, p) == [sig |-> SubSeq(m, 1, p), carry |-> FALSE]

\* The significand of p bits nearest to the magnitude m (Len(m) > p), ties to
\* even, and whether rounding carried into the next binade.
RoundSig(m, p) ==
  LET top == SubSeq(m, 1, p)
      rest == SubSeq(m, p + 1, Len(m))
      sticky == \E i \in 2..Len(rest) : rest[i] = 1
      up == rest[1] = 1 /\ (sticky \/ top[p] = 1)
      carry == up /\ top = Ones(p)
  IN [sig |-> IF ~up THEN top ELSE IF carry THEN <<1>> \o Zeros(p - 1) ELSE Inc(top),
      carry |-> carry]

\* integer to float: round to nearest, ties to even
IntAsFloat(from, to, x) ==
  LET m == Magnitude(from, x)
      n == Len(m)
      p == SigBits(to)
      s == IF IsNeg(from, x) THEN 1 ELSE 0
  IN IF n = 0 THEN [sign |-> 0, exp |-> 0, frac |-> Zeros(FracLen(to))]
     ELSE IF n <= p
     THEN [sign |-> s, exp |-> Bias(to) + n - 1,
           frac |-> Tail(m \o Zeros(p - n))]
     ELSE LET r == RoundSig(m, p)
          IN [sign |-> s,
              exp |-> Bias(to) + n - 1 + (IF r.carry THEN 1 ELSE 0),
              frac |-> Tail(r.sig)]

\* f32 to f64: exact; subnormals become normal, infinities and NaN stay so
FloatAsFloat(from, to, x) ==
  LET pad == Zeros(FracLen(to) - FracLen(from))
  IN IF x.exp = ExpMax(from)
     THEN [sign |-> x.sign, exp |-> ExpMax(to), frac |-> x.frac \o pad]
     ELSE IF x.exp = 0
     THEN LET m == StripLeading(x.frac)
          IN IF Len(m) = 0
             THEN [sign |-> x.sign, exp |-> 0, frac |-> Zeros(FracLen(to))]
             ELSE [sign |-> x.sign,
                   exp |-> Bias(to) - Bias(from) + 1 - (FracLen(from) - Len(m) + 1),
                   frac |-> Tail(m) \o Zeros(FracLen(to) - Len(m) + 1)]
     ELSE [sign |-> x.sign, exp |-> x.exp - Bias(from) + Bias(to),
           frac |-> x.frac \o pad]

CastAs(from, to, x) ==
  IF from \in IntKinds /\ to \in IntKinds THEN IntAsInt(from, to, x)
  ELSE IF from \in IntKinds THEN IntAsFloat(from, to, x)
  ELSE FloatAsFloat(from, to, x)

---------------------------------------------------------------------------
(* The numeric value of a bit pattern, in a canonical form: a finite value *)
(* is (-1)^neg * mag * 2^exp with mag an odd numeral (empty for zero).      *)

Canon(neg, m, e) ==
  LET s == StripLeading(m)
      tz == TrailingZeros(s)
  IN IF Len(s) = 0
     THEN [cls |-> "fin", neg |-> FALSE, mag |-> <<>>, exp |-> 0]
     ELSE [cls |-> "fin", neg |-> neg, mag |-> SubSeq(s, 1, Len(s) - tz),
           exp |-> e + tz]

NumVal(k, x) ==
  IF k \in IntKinds THEN Canon(IsNeg(k, x), Magnitude(k, x), 0)
  ELSE IF x.exp = ExpMax(k)
  THEN IF x.frac = Zeros(FracLen(k))
       THEN [cls |-> "inf", neg |-> x.sign = 1, mag |-> <<>>, exp |-> 0]
       ELSE [cls |-> "nan", neg |-> FALSE, mag |-> <<>>, exp |-> 0]
  ELSE IF x.exp = 0
  THEN Canon(x.sign = 1, x.frac, 1 - Bias(k) - FracLen(k))
  ELSE Canon(x.sign = 1, <<1>> \o x.frac, x.exp - Bias(k) - FracLen(k))

---------------------------------------------------------------------------
(* Sample values of each kind.                                             *)

IntSample(k, i) ==
  LET w == Width(k)
  IN CASE i = 1 -> Zeros(w)
       [] i = 2 -> Ones(w)
       [] i = 3 -> <<1>> \o Zeros(w - 1)
       [] i = 4 -> <<0>> \o Ones(w - 1)
       [] i = 5 -> NatBits(1, w)
       [] i = 6 -> NatBits(200, w)
       [] i = 7 -> NatBits(16777217, w)
       [] i = 8 -> NatBits(16777219, w)
       [] i = 9 -> NatBits(33554433, w)
       [] i = 10 -> NatBits(33554435, w)
       [] i = 11 -> NatBits(33554431, w)
       [] i = 12 -> Ones(w - 1) \o <<0>>
       [] OTHER -> NatBits(i * 1000003, w)

FloatSample(k, i) ==
  LET f == FracLen(k)
  IN CASE i = 1 -> [sign |-> 0, exp |-> 0, frac |-> Zeros(f)]
       [] i = 2 -> [sign |-> 1, exp |-> 0, frac |-> Zeros(f)]
       [] i = 3 -> [sign |-> 0, exp |-> Bias(k), frac |-> Zeros(f)]
       [] i = 4 -> [sign |-> 1, exp |-> Bias(k), frac |-> <<1>> \o Zeros(f - 1)]
       [] i = 5 -> [sign |-> 0, exp |-> 0, frac |-> Zeros(f - 1) \o <<1>>]
       [] i = 6 -> [sign |-> 0, exp |-> ExpMax(k) - 1, frac |-> Ones(f)]
       [] i = 7 -> [sign |-> 0, exp |-> ExpMax(k), frac |-> Zeros(f)]
       [] i = 8 -> [sign |-> 1, exp |-> ExpMax(k), frac |-> Zeros(f)]
       [] i = 9 -> [sign |-> 0, exp |-> ExpMax(k), frac |-> <<1>> \o Zeros(f - 1)]
       [] i = 10 -> [sign |-> 0, exp |-> Bias(k) - 4, frac |-> NatBits(5033165, f)]
       [] i = 11 -> [sign |-> 1, exp |-> 0, frac |-> <<0, 0, 1>> \o Ones(f - 3)]
       [] i = 12 -> [sign |-> 0, exp |-> Bias(k) + 24, frac |-> Zeros(f)]
       [] OTHER -> [sign |-> i % 2, exp |-> i % ExpMax(k), frac |-> NatBits(i * 1000003, f)]

Sample(k, i) == IF k \in IntKinds THEN IntSample(k, i) ELSE FloatSample(k, i)

---------------------------------------------------------------------------
(* The rules.  <<a, b>> stands for cast_rule!(a => b):                      *)
(*   impl<U: UpCastAs<a>> UpCastAs<b> for U { from(t: b) = U::from(t as a) } *)

\* SelfRules without cast_rule!(self f64).
SelfRulesNoF64 ==
  {"u8", "u16", "u32", "u64", "i8", "i16", "i32", "i64", "f32"}

SelfRules ==
  {"u8", "u16", "u32", "u64", "i8", "i16", "i32", "i64", "f32", "f64"}

\* ImplRules without cast_rule!(f64 => f32).
ImplRulesNoF64 ==
  { <<"i16", "i8">>, <<"i32", "i16">>, <<"i64", "i32">>,
    <<"u16", "u8">>, <<"u32", "u16">>, <<"u64", "u32">>,
    <<"f32", "i64">>, <<"f32", "u64">> }

\* ImplRules with cast_rule!(f64 => i64) added: i64 reaches f64 two ways.
ImplRulesDiamond ==
  { <<"i16", "i8">>, <<"i32", "i16">>, <<"i64", "i32">>,
    <<"u16", "u8">>, <<"u32", "u16">>, <<"u64", "u32">>,
    <<"f32", "i64">>, <<"f32", "u64">>, <<"f64", "f32">>, <<"f64", "i64">> }

\* ImplRules with cast_rule!(f32 => u32) in place of cast_rule!(u64 => u32).
ImplRulesDirectFloat ==
  { <<"i16", "i8">>, <<"i32", "i16">>, <<"i64", "i32">>,
    <<"u16", "u8">>, <<"u32", "u16">>, <<"f32", "u32">>,
    <<"f32", "i64">>, <<"f32", "u64">>, <<"f64", "f32">> }

ImplRules ==
  { <<"i16", "i8">>, <<"i32", "i16">>, <<"i64", "i32">>,
    <<"u16", "u8">>, <<"u32", "u16">>, <<"u64", "u32">>,
    <<"f32", "i64">>, <<"f32", "u64">>, <<"f64", "f32">> }

\* The type parameter of a generic caller, fn example<T: UpCastAs<B>>().
TypeParam == "T"
NoBound == "none"

Depth == Cardinality(Kinds)

\* Provable without the where-clause of the caller.
RECURSIVE ProvableNoWhere(_, _, _, _)
ProvableNoWhere(U, bnd, g, n) ==
  \/ U = g /\ g \in SelfRules
  \/ n > 0 /\ \E r \in ImplRules : r[2] = g /\ ProvableNoWhere(U, bnd, r[1], n - 1)

\* `U: UpCastAs<g>` is provable, U a kind or the type parameter with the
\* where-clause `T: UpCastAs<bnd>`, using at most n implication rules.
RECURSIVE Provable(_, _, _, _)
Provable(U, bnd, g, n) ==
  \/ U = g /\ g \in SelfRules
  \/ U = TypeParam /\ g = bnd
  \/ n > 0 /\ \E r \in ImplRules : r[2] = g /\ Provable(U, bnd, r[1], n - 1)

\* The impls (and the where-clause) that apply to the obligation
\* `U: UpCastAs<g>`.
Candidates(U, bnd, g) ==
  {[rule |-> "self", a |-> g, b |-> g] : x \in {k \in SelfRules : k = g /\ U = g}}
  \cup {[rule |-> "where", a |-> g, b |-> g] : x \in {k \in {bnd} : U = TypeParam /\ g = k}}
  \cup {[rule |-> "impl", a |-> r[1], b |-> r[2]] :
          r \in {q \in ImplRules : q[2] = g /\ Provable(U, bnd, q[1], Depth)}}

\* Applicable with `T::from` following the implication rules too.
ApplicableAll(e, U, bnd, g) == Candidates(U, bnd, g)

\* What each entry point may use: `T::from` on a type parameter names the
\* method of the where-clause's trait and nothing else.
Applicable(e, U, bnd, g) ==
  IF e = "T::from"
  THEN {c \in Candidates(U, bnd, g) : c.rule = "where"}
  ELSE Candidates(U, bnd, g)

\* ImplBody casting straight to the target: fn from(t: b) -> U { U::from(t as U) }.
ImplBodyDirect(c, U, t) ==
  [cast |-> [ev |-> "cast", from |-> c.b, to |-> U],
   call |-> [ev |-> "call", from |-> U, to |-> U],
   kind |-> U,
   val |-> CastAs(c.b, U, t)]

\* Body of the implication's from: fn from(t: b) -> U { U::from(t as a) }.
\* The cast comes first; its result is the argument of the call to U::from.
ImplBody(c, U, t) ==
  [cast |-> [ev |-> "cast", from |-> c.b, to |-> c.a],
   call |-> [ev |-> "call", from |-> c.a, to |-> U],
   kind |-> c.a,
   val |-> CastAs(c.b, c.a, t)]

\* <U as UpCastAs<V>>::from(t), evaluated through the impls that apply.
RECURSIVE Convert(_, _, _, _)
Convert(U, V, t, n) ==
  IF U = V \/ n = 0 THEN t
  ELSE LET cs == {c \in Candidates(U, NoBound, V) : c.rule = "impl"}
       IN IF cs = {} THEN t
          ELSE LET body == ImplBody(CHOOSE c \in cs : TRUE, U, t)
               IN Convert(U, body.kind, body.val, n - 1)

---------------------------------------------------------------------------
VARIABLES
  ctx,       \* "concrete": the target is a kind; "generic": it is T: UpCastAs<bound>
  entry,     \* "cast", "UpCastAs::from" or "T::from"
  src,       \* the kind of the argument
  tgt,       \* the target: a kind, or TypeParam
  bound,     \* the B of the where-clause, or NoBound
  v,         \* the argument
  pc,        \* "resolve", "run", "done", "accepted", "rejected"
  goal,      \* resolution is at the obligation tgt: UpCastAs<goal>
  selected,  \* the rules resolution selected, in order
  cur,       \* the kind of the value in flight
  val,       \* the value in flight
  events     \* the casts and calls evaluation made, in order

vars == <<ctx, entry, src, tgt, bound, v, pc, goal, selected, cur, val, events>>

Init ==
  /\ ctx \in {"concrete", "generic"}
  /\ src \in Kinds
  /\ \/ /\ ctx = "concrete"
        /\ entry \in {"cast", "UpCastAs::from"}
        /\ tgt \in Kinds
        /\ bound = NoBound
        /\ \E i \in 1..NumSamples : v = Sample(src, i)
     \/ /\ ctx = "generic"
        /\ entry \in {"cast", "UpCastAs::from", "T::from"}
        /\ tgt = TypeParam
        /\ bound \in Kinds
        /\ v = Sample(src, 6)
  /\ pc = "resolve"
  /\ goal = src
  /\ selected = <<>>
  /\ cur = src
  /\ val = v
  /\ events = <<>>

\* Resolution: the reflexive impl closes the obligation of a concrete target.
SelectSelf ==
  /\ pc = "resolve"
  /\ \E c \in Applicable(entry, tgt, bound, goal) :
       /\ c.rule = "self"
       /\ selected' = Append(selected, c)
  /\ pc' = "run"
  /\ events' = <<[ev |-> "call", from |-> src, to |-> tgt]>>
  /\ UNCHANGED <<ctx, entry, src, tgt, bound, v, goal, cur, val>>

\* Resolution: the where-clause closes the obligation of a type parameter.
SelectWhere ==
  /\ pc = "resolve"
  /\ \E c \in Applicable(entry, tgt, bound, goal) :
       /\ c.rule = "where"
       /\ selected' = Append(selected, c)
  /\ pc' = "accepted"
  /\ UNCHANGED <<ctx, entry, src, tgt, bound, v, goal, cur, val, events>>

\* Resolution: an implication reduces tgt: UpCastAs<b> to tgt: UpCastAs<a>.
SelectImpl ==
  /\ pc = "resolve"
  /\ \E c \in Applicable(entry, tgt, bound, goal) :
       /\ c.rule = "impl"
       /\ selected' = Append(selected, c)
       /\ goal' = c.a
  /\ UNCHANGED <<ctx, entry, src, tgt, bound, v, pc, cur, val, events>>

\* Resolution: no impl applies, the call does not type-check.
Reject ==
  /\ pc = "resolve"
  /\ Applicable(entry, tgt, bound, goal) = {}
  /\ pc' = "rejected"
  /\ UNCHANGED <<ctx, entry, src, tgt, bound, v, goal, selected, cur, val, events>>

\* Evaluation of the implication's from.
FromImpl ==
  /\ pc = "run"
  /\ \E c \in Candidates(tgt, bound, cur) :
       /\ c.rule = "impl"
       /\ LET body == ImplBody(c, tgt, val)
          IN /\ cur' = body.kind
             /\ val' = body.val
             /\ events' = events \o <<body.cast, body.call>>
  /\ UNCHANGED <<ctx, entry, src, tgt, bound, v, pc, goal, selected>>

\* Evaluation of the reflexive from: fn from(t: a) -> a { t }.
FromSelf ==
  /\ pc = "run"
  /\ \E c \in Candidates(tgt, bound, cur) :
       /\ c.rule = "self"
       /\ events' = Append(events, [ev |-> "self", from |-> c.a, to |-> c.a])
  /\ pc' = "done"
  /\ UNCHANGED <<ctx, entry, src, tgt, bound, v, goal, selected, cur, val>>

Next ==
  \/ SelectSelf
  \/ SelectWhere
  \/ SelectImpl
  \/ Reject
  \/ FromImpl
  \/ FromSelf

Spec == Init /\ [][Next]_vars

---------------------------------------------------------------------------
(* Vocabulary of the properties.                                           *)

\* The nine direct widening facts, <<source, target>>.
DirectFacts ==
  { <<"i8", "i16">>, <<"i16", "i32">>, <<"i32", "i64">>, <<"i64", "f32">>,
    <<"u8", "u16">>, <<"u16", "u32">>, <<"u32", "u64">>, <<"u64", "f32">>,
    <<"f32", "f64">> }

RECURSIVE ReachN(_, _)
ReachN(X, n) ==
  IF n = 0 THEN X
  ELSE ReachN(X \cup {f[2] : f \in {g \in DirectFacts : g[1] \in X}}, n - 1)

\* T is reachable from S by zero or more direct facts.
Reachable(S, T) == T \in ReachN({S}, Cardinality(Kinds))

\* The chains of rules from S to T, each as the sequence of kinds it visits.
RECURSIVE Paths(_, _, _)
Paths(S, T, n) ==
  IF S = T THEN {<<S>>}
  ELSE IF n = 0 THEN {}
  ELSE UNION {{<<S>> \o p : p \in Paths(r[1], T, n - 1)} :
                r \in {q \in ImplRules : q[2] = S}}

Concrete == ctx = "concrete"
Generic == ctx = "generic"
Accepted == pc \in {"run", "done", "accepted"}
Done == Concrete /\ pc = "done"

Casts == SelectSeq(events, LAMBDA e : e.ev = "cast")
\* The kinds the value went through, the source first.
Visited == <<src>> \o [i \in 1..Len(Casts) |-> Casts[i].to]
Wide(k) == IF k \in IKinds THEN "i64" ELSE "u64"

\* Arithmetic on numerals (bit sequences without leading zeros).
PadLeft(b, n) == IF Len(b) >= n THEN b ELSE Zeros(n - Len(b)) \o b

RECURSIVE AddC(_, _, _)
AddC(a, b, c) ==
  IF Len(a) = 0 THEN <<>>
  ELSE LET s == a[Len(a)] + b[Len(b)] + c
       IN IF s >= 2 THEN AddC(Front(a), Front(b), 1) \o <<s - 2>>
                    ELSE AddC(Front(a), Front(b), 0) \o <<s>>

RECURSIVE LexLeq(_, _)
LexLeq(a, b) ==
  IF Len(a) = 0 THEN TRUE
  ELSE IF a[1] # b[1] THEN a[1] < b[1]
  ELSE LexLeq(Tail(a), Tail(b))

NatLeq(a, b) ==
  LET x == StripLeading(a)
      y == StripLeading(b)
  IN Len(x) < Len(y) \/ (Len(x) = Len(y) /\ LexLeq(x, y))

\* |a - b|
AbsDiff(a, b) ==
  LET n == IF Len(a) > Len(b) THEN Len(a) ELSE Len(b)
      x == PadLeft(a, n)
      y == PadLeft(b, n)
  IN StripLeading(IF NatLeq(y, x) THEN AddC(x, Invert(y), 1)
                                  ELSE AddC(y, Invert(x), 1))

\* r is the float-32 value nearest to the integer x (ties to even); both
\* are canonical numeric values.
NearestF32(x, r) ==
  LET X == x.mag \o Zeros(x.exp)
      n == Len(X)
      k == n - 24
  IN IF n <= 24 THEN r = x
     ELSE /\ r.cls = "fin" /\ r.neg = x.neg
          /\ Len(r.mag) <= 24 /\ r.exp >= k
          /\ LET D2 == AbsDiff(r.mag \o Zeros(r.exp), X) \o <<0>>
                 q == <<1>> \o Zeros(k)
             IN /\ NatLeq(D2, q)
                /\ NatLeq(q, D2) => r.exp >= k + 1

---------------------------------------------------------------------------
\* C1: for a concrete target, the call is accepted exactly when the target is
\* reachable from the source by zero or more of the nine direct facts; every
\* other pair is rejected by resolution, before anything is evaluated, among
\* them u64 -> u32, i32 -> u32 and f64 -> f32.
C1_AcceptedIffReachable ==
  Concrete =>
    /\ Accepted => Reachable(src, tgt)
    /\ pc = "rejected" => ~Reachable(src, tgt) /\ events = <<>>
    /\ pc = "resolve" => ENABLED Next
    /\ <<src, tgt>> \in {<<"u64", "u32">>, <<"i32", "u32">>, <<"f64", "f32">>}
         => ~Accepted

C1_Witness == Done /\ src = "i8" /\ tgt = "f64"

\* C2 as stated: the result of every accepted conversion is numerically equal
\* to its argument.
C2_AlwaysExact == Done => NumVal(tgt, val) = NumVal(src, v)

\* C2, amended: the result is numerically equal to the argument unless the
\* source is an integer kind, the target a float kind and the argument needs
\* more than 24 significant bits; the result is then the argument rounded to
\* the nearest float-32 value, ties to even (and f32 -> f64 is exact).
C2_ExactOrNearestF32 ==
  Done =>
    /\ (~(src \in IntKinds /\ tgt \in FKinds) \/ Len(NumVal(src, v).mag) <= 24)
         => NumVal(tgt, val) = NumVal(src, v)
    /\ (src \in IntKinds /\ tgt \in FKinds)
         => NearestF32(NumVal(src, v), NumVal(tgt, val))

C2_Witness ==
  /\ Done /\ src = "i32" /\ tgt = "f64"
  /\ Len(NumVal(src, v).mag) > 24
  /\ NumVal(tgt, val) # NumVal(src, v)

\* C3: converting in one call equals converting in stages through any kind M
\* on the path; 200 from u8 to u64 yields 200 either way.
C3_Transitive ==
  Done =>
    /\ \A M \in Kinds :
         Reachable(src, M) /\ Reachable(M, tgt)
           => val = Convert(tgt, M, Convert(M, src, v, Depth), Depth)
    /\ (src = "u8" /\ tgt = "u64" /\ v = NatBits(200, 8))
         => val = NatBits(200, 64)

C3_Witness == Done /\ src = "u8" /\ tgt = "u64" /\ v = NatBits(200, 8)

\* C4: with T constrained only by UpCastAs<B>, cast and UpCastAs::from into T
\* are accepted from exactly the kinds that have a widening path to B.
C4_GenericFollowsImplications ==
  (Generic /\ entry \in {"cast", "UpCastAs::from"}) =>
    /\ Accepted => Reachable(src, bound)
    /\ pc = "rejected" => ~Reachable(src, bound)
    /\ pc = "resolve" => ENABLED Next
    /\ (bound = "u32" /\ src \in {"u8", "u16", "u32"}) => pc # "rejected"
    /\ (bound = "u32" /\ src \in {"u64", "f32", "f64"}) => ~Accepted
    /\ (bound = "u64" /\ src \in {"u8", "u16"}) => pc # "rejected"
    /\ (bound = "u64" /\ src = "f32") => ~Accepted

C4_Witness ==
  Generic /\ entry = "cast" /\ bound = "u64" /\ src = "u16" /\ pc = "accepted"

\* C5: T::from on a type parameter T: UpCastAs<B> is accepted only for an
\* argument of kind exactly B, and rejected for every other kind, the kinds
\* below B included; cast and UpCastAs::from accept those.
C5_DirectFromIsExact ==
  Generic =>
    /\ entry = "T::from" =>
         /\ Accepted => src = bound /\ selected = <<[rule |-> "where", a |-> bound, b |-> bound]>>
         /\ pc = "rejected" => src # bound
         /\ pc = "resolve" => ENABLED Next
         /\ src # bound => ~Accepted
    /\ (entry # "T::from" /\ Reachable(src, bound)) => pc # "rejected"

C5_Witness ==
  Generic /\ entry = "T::from" /\ bound = "u32" /\ src = "u16" /\ pc = "rejected"

\* C6: between integer kinds an accepted conversion keeps the signedness,
\* never narrows, and extends the bit pattern with zeros (unsigned) or with
\* copies of the sign bit (signed), so the numeric value is kept.
C6_IntegerExtension ==
  (Done /\ src \in IntKinds /\ tgt \in IntKinds) =>
    /\ (src \in IKinds) = (tgt \in IKinds)
    /\ Width(tgt) >= Width(src)
    /\ val = [i \in 1..(Width(tgt) - Width(src)) |->
                IF src \in IKinds THEN v[1] ELSE 0] \o v
    /\ NumVal(tgt, val) = NumVal(src, v)
    /\ (src = "u8" /\ tgt = "u16" /\ v = Ones(8)) => val = NatBits(255, 16)
    /\ (src = "i32" /\ tgt = "i64" /\ v = Ones(32)) => val = Ones(64)
    /\ (src = "i8" /\ tgt = "i64" /\ v = <<1>> \o Zeros(7))
         => NumVal(tgt, val) = [cls |-> "fin", neg |-> TRUE, mag |-> <<1>>, exp |-> 7]

C6_Witness == Done /\ src = "i8" /\ tgt = "i64" /\ v = <<1>> \o Zeros(7)

\* C7: K to K is accepted for every kind; only the reflexive rule applies to
\* it; no cast is made and the argument comes back unchanged.
C7_Reflexive ==
  (Concrete /\ src = tgt) =>
    /\ pc # "rejected"
    /\ pc = "resolve" =>
         Candidates(tgt, bound, goal) = {[rule |-> "self", a |-> src, b |-> src]}
    /\ Accepted => selected = <<[rule |-> "self", a |-> src, b |-> src]>>
    /\ Casts = <<>>
    /\ pc = "done" => val = v

C7_Witness == Done /\ src = "f64" /\ tgt = "f64" /\ NumVal(src, v).cls = "nan"

\* C8 as stated: the inductive case of convert<S, T> first makes the
\* recursive call that resolves S to M, M the one-step predecessor of T, and
\* casts afterwards.
C8_RecurseThenCast ==
  Concrete =>
    \A i \in 1..(Len(events) - 1) :
      (events[i].ev = "call" /\ events[i].from # events[i].to) =>
        /\ events[i + 1].ev = "call"
        /\ events[i + 1].from = events[i].from
        /\ <<events[i + 1].to, events[i].to>> \in DirectFacts

\* C8, amended: the inductive case of convert<S, T> first applies the single
\* direct cast from S to its one-step successor N and only then makes the
\* recursive call that resolves N to T; the casts so run along the path and
\* the last one is the direct cast into T; the base case applies no cast and
\* adjacent kinds result in exactly one direct cast.
C8_CastThenRecurse ==
  Concrete =>
    /\ \A i \in 1..(Len(events) - 1) :
         /\ (events[i].ev = "call" /\ events[i].from # events[i].to) =>
              /\ events[i + 1].ev = "cast"
              /\ events[i + 1].from = events[i].from
              /\ <<events[i].from, events[i + 1].to>> \in DirectFacts
              /\ events[i + 2] = [ev |-> "call", from |-> events[i + 1].to,
                                  to |-> events[i].to]
         /\ (events[i].ev = "call" /\ events[i].from = events[i].to) =>
              events[i + 1] = [ev |-> "self", from |-> events[i].to, to |-> events[i].to]
    /\ pc = "done" =>
         /\ src = tgt => Casts = <<>>
         /\ src # tgt => Casts[Len(Casts)].to = tgt
         /\ <<src, tgt>> \in DirectFacts
              => Casts = <<[ev |-> "cast", from |-> src, to |-> tgt]>>

C8_Witness == Done /\ src = "u8" /\ tgt = "u32" /\ Len(Casts) = 2

\* C9: there is at most one chain of rules between two kinds, at most one
\* rule applies at every step of resolution and of evaluation, and i64 -> f32
\* and u64 -> f32 each make exactly their own direct cast.
C9_UniqueResolution ==
  /\ Cardinality(Paths(src, IF Concrete THEN tgt ELSE bound, Depth)) <= 1
  /\ pc = "resolve" => Cardinality(Candidates(tgt, bound, goal)) <= 1
  /\ pc = "run" => Cardinality(Candidates(tgt, bound, cur)) <= 1
  /\ (Done /\ src \in {"i64", "u64"} /\ tgt = "f32")
       => Casts = <<[ev |-> "cast", from |-> src, to |-> "f32"]>>
  /\ (Concrete /\ src \in {"i64", "u64"} /\ tgt = "f32") => pc # "rejected"

C9_Witness == Done /\ src = "u64" /\ tgt = "f32" /\ Len(Casts) = 1

\* C10: an integer reaches f64 only through f32, an 8-, 16- or 32-bit integer
\* reaches a float kind only after its own 64-bit kind, and the only cast
\* from an integer kind to a float kind is the one from a 64-bit kind to f32.
C10_FloatPathShape ==
  Concrete =>
    /\ \A i \in 1..Len(Casts) :
         (Casts[i].from \in IntKinds /\ Casts[i].to \in FKinds)
           => Width(Casts[i].from) = 64 /\ Casts[i].to = "f32"
    /\ (pc = "done" /\ src \in IntKinds /\ tgt = "f64")
         => \E i \in 1..Len(Visited) : Visited[i] = "f32"
    /\ (pc = "done" /\ src \in IntKinds /\ Width(src) < 64 /\ tgt \in FKinds)
         => \E i \in 1..Len(Visited) :
              /\ Visited[i] = Wide(src)
              /\ \A j \in 1..i : Visited[j] \notin FKinds

C10_Witness == Done /\ src = "i16" /\ tgt = "f64" /\ Len(Casts) = 4

====
